---- MODULE Spec2Model ----
(***************************************************************************)
(* The configuration store of the Sonoma CLI (src/src/utils/config.ts):    *)
(* class Config with loadConfig / get / set / reset / resetAll /           *)
(* saveConfig / getEnvConfig, over JavaScript values.                      *)
(*                                                                         *)
(* JavaScript values are tagged records.  Every kind has its own field     *)
(* names, so two values of different kinds never compare field by field.   *)
(* A dotted path string is a sequence of tokens: key names and the         *)
(* separator ".", e.g. "auth.apiKey" is <<"auth", ".", "apiKey">> and the  *)
(* empty string is << >>.  Key names range over names that are neither     *)
(* array indices nor members inherited from Object.prototype.  The module  *)
(* is compiled as an ES module, hence strict mode: assigning a property    *)
(* on a primitive throws a TypeError.                                      *)
(***************************************************************************)
EXTENDS Integers, Sequences, FiniteSets, TLC

VARIABLES pc, configData, file, project, env, writable, lastOp, nOps, overridden,
          hist, peer, retrying, heap

vars == <<pc, configData, file, project, env, writable, lastOp, nOps, overridden,
          hist, peer, retrying, heap>>

(* Number of store operations issued after construction. *)
MaxOps == 2

----------------------------------------------------------------------------
(* JavaScript values *)

Undef == [t |-> "undefined"]
Null == [t |-> "null"]
Bool(b) == [t |-> "boolean", b |-> b]
Num(n) == [t |-> "number", n |-> n]
Str(s) == [t |-> "string", s |-> s]
(* an array: its elements and its non-index own properties *)
Arr(e, p) == [t |-> "array", e |-> e, p |-> p]
(* a plain object: a function from its own keys to values *)
Obj(m) == [t |-> "object", m |-> m]

EmptyMap == [k \in {} |-> Undef]
EmptyObj == Obj(EmptyMap)
EmptyArr == Arr(<< >>, EmptyMap)

Put(m, k, v) == [x \in (DOMAIN m) \cup {k} |-> IF x = k THEN v ELSE m[x]]
Del(m, k) == [x \in (DOMAIN m) \ {k} |-> m[x]]

IsTree(v) == v.t = "object"
IsObject(v) == v.t \in {"object", "array"}

(* ToBoolean, as used by `||` and `!` *)
Truthy(v) ==
    CASE v.t = "undefined" -> FALSE
      [] v.t = "null" -> FALSE
      [] v.t = "boolean" -> v.b
      [] v.t = "number" -> v.n # 0
      [] v.t = "string" -> v.s # ""
      [] OTHER -> TRUE

(* v[k] for a value v that is neither undefined nor null *)
GetProp(v, k) ==
    CASE v.t = "object" -> IF k \in DOMAIN v.m THEN v.m[k] ELSE Undef
      [] v.t = "array" -> IF k \in DOMAIN v.p THEN v.p[k] ELSE Undef
      [] OTHER -> Undef

(* v[k] = x : the value v after the assignment, or a TypeError on a primitive *)
AssignProp(v, k, x) ==
    CASE v.t = "object" -> [threw |-> FALSE, obj |-> Obj(Put(v.m, k, x))]
      [] v.t = "array" -> [threw |-> FALSE, obj |-> Arr(v.e, Put(v.p, k, x))]
      [] OTHER -> [threw |-> TRUE, obj |-> v]

(* delete v[k] : removing a property a primitive does not own is a no-op *)
DeleteProp(v, k) ==
    CASE v.t = "object" -> Obj(Del(v.m, k))
      [] v.t = "array" -> Arr(v.e, Del(v.p, k))
      [] OTHER -> v

----------------------------------------------------------------------------
(* Dotted path strings *)

RECURSIVE SplitAcc(_, _, _)
SplitAcc(s, cur, acc) ==
    IF s = << >> THEN Append(acc, cur)
    ELSE IF Head(s) = "." THEN SplitAcc(Tail(s), "", Append(acc, cur))
    ELSE SplitAcc(Tail(s), Head(s), acc)

(* key.split('.') : "" splits into the single empty segment *)
Split(s) == SplitAcc(s, "", << >>)

RECURSIVE Join(_)
Join(segs) ==
    IF Len(segs) = 1 THEN (IF segs[1] = "" THEN << >> ELSE <<segs[1]>>)
    ELSE (IF segs[1] = "" THEN <<".">> ELSE <<segs[1], ".">>) \o Join(Tail(segs))

----------------------------------------------------------------------------
(* lodash merge, as called by loadConfig and by the tree form of set *)

Max(a, b) == IF a >= b THEN a ELSE b

RECURSIVE baseMerge(_, _)
RECURSIVE baseMergeDeep(_, _, _)

(* The value left at one key: `has` tells whether the destination owns the *)
(* key.  Plain objects and arrays recurse; a source undefined is skipped   *)
(* when the destination owns the key; anything else is assigned.           *)
baseMergeDeep(has, objValue, srcValue) ==
    CASE srcValue.t = "array" ->
            baseMerge(IF objValue.t = "array" THEN objValue ELSE EmptyArr, srcValue)
      [] srcValue.t = "object" ->
            baseMerge(IF IsObject(objValue) THEN objValue ELSE EmptyObj, srcValue)
      [] srcValue.t = "undefined" -> IF has THEN objValue ELSE Undef
      [] OTHER -> srcValue

MergeMaps(objMap, srcMap) ==
    [k \in (DOMAIN objMap) \cup (DOMAIN srcMap) |->
        IF k \notin DOMAIN srcMap THEN objMap[k]
        ELSE baseMergeDeep(k \in DOMAIN objMap,
                           IF k \in DOMAIN objMap THEN objMap[k] ELSE Undef,
                           srcMap[k])]

MergeElems(objElems, srcElems) ==
    [i \in 1..Max(Len(objElems), Len(srcElems)) |->
        IF i > Len(srcElems) THEN objElems[i]
        ELSE baseMergeDeep(i <= Len(objElems),
                           IF i <= Len(objElems) THEN objElems[i] ELSE Undef,
                           srcElems[i])]

(* every own key of the source, index or not, is merged into the object *)
baseMerge(object, source) ==
    CASE object.t = "object" /\ source.t = "object" ->
            Obj(MergeMaps(object.m, source.m))
      [] object.t = "array" /\ source.t = "object" ->
            Arr(object.e, MergeMaps(object.p, source.m))
      [] object.t = "array" /\ source.t = "array" ->
            Arr(MergeElems(object.e, source.e), MergeMaps(object.p, source.p))
      [] OTHER -> object

RECURSIVE merge(_, _)
(* merge(object, ...sources): the sources are merged in from left to right *)
merge(object, sources) ==
    IF sources = << >> THEN object
    ELSE merge(baseMerge(object, Head(sources)), Tail(sources))

----------------------------------------------------------------------------
(* JSON.stringify followed by JSON.parse: the document a file holds.       *)
(* Members whose value is undefined are dropped, an undefined array        *)
(* element becomes null, the non-index properties of an array are dropped. *)

RECURSIVE Stringify(_)
Stringify(v) ==
    CASE v.t = "object" ->
            Obj([k \in {x \in DOMAIN v.m : v.m[x].t # "undefined"} |-> Stringify(v.m[k])])
      [] v.t = "array" ->
            Arr([i \in 1..Len(v.e) |->
                    IF v.e[i].t = "undefined" THEN Null ELSE Stringify(v.e[i])], EmptyMap)
      [] OTHER -> v

----------------------------------------------------------------------------
(* Config.get *)

RECURSIVE GetLoop(_, _)
(* for (const k of keys) { if (value === undefined) break; value = value[k] } *)
GetLoop(value, keys) ==
    IF keys = << >> \/ value.t = "undefined" THEN [threw |-> FALSE, value |-> value]
    ELSE IF value.t = "null" THEN [threw |-> TRUE, value |-> Undef]
    ELSE GetLoop(GetProp(value, Head(keys)), Tail(keys))

NoKey == <<"<omitted>">>

(* get(key) on the tree data: the whole tree for an omitted or empty key *)
get(data, key) ==
    IF key = NoKey \/ key = << >> THEN [threw |-> FALSE, value |-> data]
    ELSE GetLoop(data, Split(key))

----------------------------------------------------------------------------
(* Config.set, path form: the navigation loop and the final assignment *)

(* the loop without the `|| {}` default: an absent segment is navigated into *)
RECURSIVE SetLoop_NoDefault(_, _, _)
SetLoop_NoDefault(current, keys, value) ==
    IF Len(keys) = 1 THEN AssignProp(current, keys[1], value)
    ELSE
        LET child == GetProp(current, keys[1])
            a == AssignProp(current, keys[1], child)
        IN  IF a.threw THEN a
            ELSE LET r == SetLoop_NoDefault(child, Tail(keys), value)
                 IN  [threw |-> r.threw,
                      obj |-> AssignProp(current, keys[1], r.obj).obj]

RECURSIVE SetLoop(_, _, _)
SetLoop(current, keys, value) ==
    IF Len(keys) = 1 THEN AssignProp(current, keys[1], value)
    ELSE
        LET child == IF Truthy(GetProp(current, keys[1]))
                     THEN GetProp(current, keys[1]) ELSE EmptyObj
            a == AssignProp(current, keys[1], child)
        IN  IF a.threw THEN a
            ELSE LET r == SetLoop(child, Tail(keys), value)
                 IN  [threw |-> r.threw,
                      obj |-> AssignProp(current, keys[1], r.obj).obj]

----------------------------------------------------------------------------
(* Config.reset, path form: navigate to the parent, delete the last key *)

(* the loop deleting the first segment of the path instead of the last *)
ResetLoop_DeleteFirst(current, keys) ==
    IF Len(keys) > 1 /\ ~Truthy(GetProp(current, keys[1]))
    THEN [returned |-> TRUE, obj |-> current]
    ELSE [returned |-> FALSE, obj |-> DeleteProp(current, keys[1])]

RECURSIVE ResetLoop(_, _)
ResetLoop(current, keys) ==
    IF Len(keys) = 1 THEN [returned |-> FALSE, obj |-> DeleteProp(current, keys[1])]
    ELSE
        LET child == GetProp(current, keys[1])
        IN  IF ~Truthy(child) THEN [returned |-> TRUE, obj |-> current]
            ELSE LET r == ResetLoop(child, Tail(keys))
                 IN  [returned |-> r.returned,
                      obj |-> AssignProp(current, keys[1], r.obj).obj]

----------------------------------------------------------------------------
(* Config.getEnvConfig *)

envVars == <<"SONOMA_API_KEY", "SONOMA_NETWORK", "SONOMA_DEBUG">>

envMapping ==
    [v \in {"SONOMA_API_KEY", "SONOMA_NETWORK", "SONOMA_DEBUG"} |->
        CASE v = "SONOMA_API_KEY" -> <<"auth", ".", "apiKey">>
          [] v = "SONOMA_NETWORK" -> <<"network">>
          [] OTHER -> <<"debug">>]

(* Number(text) on the texts the environment can hold here *)
ToNumber(text) ==
    CASE text = "" -> [nan |-> FALSE, n |-> 0]
      [] text = "12345" -> [nan |-> FALSE, n |-> 12345]
      [] OTHER -> [nan |-> TRUE, n |-> 0]

(* the type conversion of one environment text *)
Coerce(text) ==
    IF text = "true" THEN Bool(TRUE)
    ELSE IF text = "false" THEN Bool(FALSE)
    ELSE IF ~ToNumber(text).nan THEN Num(ToNumber(text).n)
    ELSE Str(text)

RECURSIVE EnvLoop(_, _, _)
EnvLoop(envConfig, names, e) ==
    IF names = << >> THEN envConfig
    ELSE IF Head(names) \in DOMAIN e
         THEN EnvLoop(SetLoop(envConfig, Split(envMapping[Head(names)]),
                              Coerce(e[Head(names)])).obj, Tail(names), e)
         ELSE EnvLoop(envConfig, Tail(names), e)

(* the overlay also taking in a variable that is not in the registry *)
getEnvConfig_Wildcard(e) ==
    IF "SONOMA_TIMEOUT" \in DOMAIN e
    THEN SetLoop(EnvLoop(EmptyObj, envVars, e), <<"timeout">>,
                 Coerce(e["SONOMA_TIMEOUT"])).obj
    ELSE EnvLoop(EmptyObj, envVars, e)

getEnvConfig(e) == EnvLoop(EmptyObj, envVars, e)

----------------------------------------------------------------------------
(* Config.loadConfig: any exception inside the try block yields {} *)

fileConfig(f) == IF f.kind = "json" THEN f.doc ELSE EmptyObj

projectConfig(p) ==
    IF p.kind = "found" /\ Truthy(p.config) THEN p.config ELSE EmptyObj

loadConfig(f, p, e) ==
    IF f.kind = "malformed" \/ p.kind = "throws" THEN EmptyObj
    ELSE merge(EmptyObj, <<fileConfig(f), projectConfig(p), getEnvConfig(e)>>)

(* saveConfig logging the error without rethrowing it *)
saveConfig_Swallow(data, disk, canWrite) ==
    [threw |-> FALSE,
     file |-> IF canWrite THEN [kind |-> "json", doc |-> Stringify(data)] ELSE disk]

(* saveConfig merging the tree into what the file holds at that moment *)
saveConfig_MergeDisk(data, disk, canWrite) ==
    IF canWrite
    THEN [threw |-> FALSE,
          file |-> [kind |-> "json",
                    doc |-> Stringify(merge(EmptyObj, <<fileConfig(disk), data>>))]]
    ELSE [threw |-> TRUE, file |-> disk]

(* Config.saveConfig: the file after the write, or the rethrown error *)
saveConfig(data, disk, canWrite) ==
    IF canWrite THEN [threw |-> FALSE, file |-> [kind |-> "json", doc |-> Stringify(data)]]
    ELSE [threw |-> TRUE, file |-> disk]

----------------------------------------------------------------------------
(* The inputs *)

Doc1 ==
    Obj([k \in {"network", "a"} |->
            IF k = "network" THEN Str("devnet")
            ELSE Obj([j \in {"b"} |-> Null])])

Doc2 ==
    Obj([k \in {"a", "auth"} |->
            IF k = "a" THEN Obj([j \in {"b"} |-> Obj([i \in {"c"} |-> Num(5)])])
            ELSE Obj([j \in {"apiKey"} |-> Str("filekey")])])

Proj1 ==
    Obj([k \in {"network", "a"} |->
            IF k = "network" THEN Str("testnet")
            ELSE Arr(<<Num(1), Num(2)>>, EmptyMap)])

FileStates ==
    {[kind |-> "absent"], [kind |-> "malformed"],
     [kind |-> "json", doc |-> Doc1], [kind |-> "json", doc |-> Doc2]}

ProjectStates ==
    {[kind |-> "none"], [kind |-> "throws"], [kind |-> "found", config |-> Proj1]}

(* the text each registered variable holds when it is present *)
EnvText ==
    [v \in {"SONOMA_API_KEY", "SONOMA_NETWORK", "SONOMA_DEBUG"} |->
        CASE v = "SONOMA_API_KEY" -> "12345"
          [] v = "SONOMA_NETWORK" -> "mainnet"
          [] OTHER -> "true"]

(* which registered variables are present: none, the network selector,    *)
(* the API key with the debug flag, or all three                           *)
EnvStates ==
    {[v \in S |-> EnvText[v]] :
        S \in {{}, {"SONOMA_NETWORK"}, {"SONOMA_API_KEY", "SONOMA_DEBUG"},
               DOMAIN envMapping}}

PathSegs ==
    {<<"a", "b">>, <<"a", "b", "c">>, <<"network">>, <<"auth", "apiKey">>}

PathStrs == {Join(p) : p \in PathSegs} \cup {<< >>}

Vals == {Num(5), Str("mainnet"), Null, Undef}

Trees ==
    {Obj([k \in {"network"} |-> Str("mainnet")]),
     Obj([k \in {"a"} |-> Arr(<<Num(3)>>, EmptyMap)])}

----------------------------------------------------------------------------
(* The store as a state machine *)

NoOp == [op |-> "none", key |-> NoKey, arg |-> Undef, outcome |-> "ok",
         persists |-> 0, ret |-> Undef]

IsPrefix(a, b) == Len(a) <= Len(b) /\ SubSeq(b, 1, Len(a)) = a

(* the registered variables whose mapped path, or an ancestor of it, the   *)
(* path form of set writes                                                  *)
WrittenByPath(key) ==
    {v \in DOMAIN envMapping : IsPrefix(Split(key), Split(envMapping[v]))}

(* the registered variables whose mapped path, or an ancestor, the tree    *)
(* passed to set defines with a value of its own                           *)
WrittenByTree(tree) ==
    {v \in DOMAIN envMapping :
        \E n \in 1..Len(Split(envMapping[v])) :
            LET x == GetLoop(tree, SubSeq(Split(envMapping[v]), 1, n)).value
            IN  x.t # "undefined" /\ (n = Len(Split(envMapping[v])) \/ ~IsTree(x))}

(* every dotted path under which the tree v holds a value *)
RECURSIVE PathsOf(_)
PathsOf(v) ==
    IF IsTree(v)
    THEN UNION {{<<k>>} \cup {<<k>> \o q : q \in PathsOf(v.m[k])} : k \in DOMAIN v.m}
    ELSE {}

(* What has happened in this process: the file it found when it loaded, how *)
(* many times loadConfig has run, the paths that set, reset and resetAll,  *)
(* called directly on the store, have written or removed (<< >> stands for *)
(* the whole tree), and which of these calls there have been with which    *)
(* outcome.                                                                 *)
NoHist(f) == [start |-> f, loads |-> 0, written |-> {}, kinds |-> {}]

Wrote(path) ==
    [hist EXCEPT !.written = @ \cup {path},
                 !.kinds = @ \cup {<<lastOp'.op, lastOp'.outcome>>}]

(* set(tree) writes every path under which the tree holds a value *)
WroteTree(tree) ==
    [hist EXCEPT !.written = @ \cup PathsOf(tree),
                 !.kinds = @ \cup {<<lastOp'.op, lastOp'.outcome>>}]

(* no second process, no retry call in this scenario *)
NoPeer == [pc |-> "none"]
NoRetry == [status |-> "none"]

(* no object identities are tracked in this scenario *)
NoHeap == [cells |-> << >>]

Init ==
    /\ pc = "uninitialized"
    /\ configData = EmptyObj
    /\ file \in FileStates
    /\ project \in ProjectStates
    /\ env \in EnvStates
    /\ writable \in BOOLEAN
    /\ lastOp = NoOp
    /\ nOps = 0
    /\ overridden = {}
    /\ hist = NoHist(file)
    /\ peer = NoPeer
    /\ retrying = NoRetry
    /\ heap = NoHeap

(* new Config(): the module-level singleton is constructed once *)
Constructor ==
    /\ pc = "uninitialized"
    /\ pc' = "loaded"
    /\ configData' = loadConfig(file, project, env)
    /\ lastOp' = [NoOp EXCEPT !.op = "load"]
    /\ UNCHANGED <<file, project, env, writable, nOps, overridden, peer, retrying, heap>>
    /\ hist' = [hist EXCEPT !.loads = @ + 1, !.start = file]

Get(key) ==
    /\ pc = "loaded" /\ nOps < MaxOps
    /\ nOps' = nOps + 1
    /\ LET r == get(configData, key)
       IN  lastOp' = [op |-> "get", key |-> key, arg |-> Undef,
                      outcome |-> IF r.threw THEN "TypeError" ELSE "ok",
                      persists |-> 0, ret |-> r.value]
    /\ UNCHANGED <<pc, configData, file, project, env, writable, overridden, hist, peer, retrying, heap>>

(* the common tail of the mutating calls: await this.saveConfig() *)
Persist(op, key, arg) ==
    LET s == saveConfig(configData', file, writable)
    IN  /\ file' = s.file
        /\ lastOp' = [op |-> op, key |-> key, arg |-> arg,
                      outcome |-> IF s.threw THEN "PersistError" ELSE "ok",
                      persists |-> 1, ret |-> Undef]

(* set restoring the tree it had when the persist fails *)
SetPath_Rollback(key, value) ==
    /\ pc = "loaded" /\ nOps < MaxOps
    /\ nOps' = nOps + 1
    /\ LET r == SetLoop(configData, Split(key), value)
       IN  /\ configData' = IF ~r.threw /\ ~writable THEN configData ELSE r.obj
           /\ IF r.threw
              THEN /\ lastOp' = [op |-> "set", key |-> key, arg |-> value,
                                 outcome |-> "TypeError", persists |-> 0,
                                 ret |-> Undef]
                   /\ UNCHANGED <<file, overridden>>
              ELSE /\ Persist("set", key, value)
                   /\ overridden' = overridden \cup WrittenByPath(key)
    /\ UNCHANGED <<pc, project, env, writable, peer, retrying, heap>>
    /\ hist' = Wrote(Split(key))

SetPath(key, value) ==
    /\ pc = "loaded" /\ nOps < MaxOps
    /\ nOps' = nOps + 1
    /\ LET r == SetLoop(configData, Split(key), value)
       IN  /\ configData' = r.obj
           /\ IF r.threw
              THEN /\ lastOp' = [op |-> "set", key |-> key, arg |-> value,
                                 outcome |-> "TypeError", persists |-> 0,
                                 ret |-> Undef]
                   /\ UNCHANGED <<file, overridden>>
              ELSE /\ Persist("set", key, value)
                   /\ overridden' = overridden \cup WrittenByPath(key)
    /\ UNCHANGED <<pc, project, env, writable, peer, retrying, heap>>
    /\ hist' = Wrote(Split(key))

SetTree(tree) ==
    /\ pc = "loaded" /\ nOps < MaxOps
    /\ nOps' = nOps + 1
    /\ configData' = merge(EmptyObj, <<configData, tree>>)
    /\ Persist("set", NoKey, tree)
    /\ overridden' = overridden \cup WrittenByTree(tree)
    /\ UNCHANGED <<pc, project, env, writable, peer, retrying, heap>>
    /\ hist' = WroteTree(tree)

Reset(key) ==
    /\ pc = "loaded" /\ nOps < MaxOps
    /\ nOps' = nOps + 1
    /\ IF key # NoKey /\ key # << >>
       THEN LET r == ResetLoop(configData, Split(key))
            IN  /\ configData' = r.obj
                /\ IF r.returned
                   THEN /\ lastOp' = [op |-> "reset", key |-> key, arg |-> Undef,
                                      outcome |-> "ok", persists |-> 0,
                                      ret |-> Undef]
                        /\ UNCHANGED file
                   ELSE Persist("reset", key, Undef)
       ELSE /\ configData' = EmptyObj
            /\ Persist("reset", key, Undef)
    /\ UNCHANGED <<pc, project, env, writable, overridden, peer, retrying, heap>>
    /\ hist' = Wrote(IF key # NoKey /\ key # << >> THEN Split(key) ELSE << >>)

(* resetAll emptying the tree without the saveConfig call *)
ResetAll_NoSave ==
    /\ pc = "loaded" /\ nOps < MaxOps
    /\ nOps' = nOps + 1
    /\ configData' = EmptyObj
    /\ lastOp' = [NoOp EXCEPT !.op = "resetAll"]
    /\ UNCHANGED <<pc, file, project, env, writable, overridden, peer, retrying, heap>>
    /\ hist' = Wrote(<< >>)

ResetAll ==
    /\ pc = "loaded" /\ nOps < MaxOps
    /\ nOps' = nOps + 1
    /\ configData' = EmptyObj
    /\ Persist("resetAll", NoKey, Undef)
    /\ UNCHANGED <<pc, project, env, writable, overridden, peer, retrying, heap>>
    /\ hist' = Wrote(<< >>)

Next ==
    \/ Constructor
    \/ \E key \in PathStrs \cup {NoKey} : Get(key)
    \/ \E key \in PathStrs, value \in Vals : SetPath(key, value)
    \/ \E tree \in Trees : SetTree(tree)
    \/ \E key \in PathStrs \cup {NoKey} : Reset(key)
    \/ ResetAll

Spec == Init /\ [][Next]_vars

----------------------------------------------------------------------------
(* Vocabulary of the properties *)

Ok(v) == [threw |-> FALSE, value |-> v]

Defines(tree, p) == GetLoop(tree, p).value.t # "undefined"

ProperPrefixes(p) == {SubSeq(p, 1, n) : n \in 1..(Len(p) - 1)}

(* a path string made of one or more non-empty segments *)
ValidPath(key) == key # NoKey /\ key # << >> /\ \A i \in 1..Len(Split(key)) : Split(key)[i] # ""

(* the three sources as trees; a source that cannot be read defines nothing *)
SrcFile == IF file.kind = "json" THEN file.doc ELSE EmptyObj
SrcProject == IF project.kind = "found" THEN project.config ELSE EmptyObj
SrcEnv == getEnvConfig(env)
Sources == <<SrcFile, SrcProject, SrcEnv>>

(* the highest-precedence source that defines p; 0 when none does *)
Top(p) ==
    IF Defines(SrcEnv, p) THEN 3
    ELSE IF Defines(SrcProject, p) THEN 2
    ELSE IF Defines(SrcFile, p) THEN 1 ELSE 0

(* a higher source puts a non-tree value on the way to p *)
Shadowed(p) ==
    \E i \in (Top(p) + 1)..3 : \E q \in ProperPrefixes(p) :
        Defines(Sources[i], q) /\ ~IsTree(GetLoop(Sources[i], q).value)

JustLoaded == pc = "loaded" /\ lastOp.op = "load"

Mutating == {"set", "reset", "resetAll"}

----------------------------------------------------------------------------
(* C1: after load, every path that a source defines with a non-tree value  *)
(* reads back, through get, the value of the highest-precedence source     *)
(* that defines it (persisted file < project < environment).               *)
C1_Precedence ==
    JustLoaded =>
        \A p \in PathsOf(SrcFile) \cup PathsOf(SrcProject) \cup PathsOf(SrcEnv) :
            LET v == GetLoop(Sources[Top(p)], p).value
            IN  (~IsTree(v) /\ ~Shadowed(p)) => GetLoop(configData, p) = Ok(v)

(* C2: a registered variable present at load reads back, at its mapped     *)
(* path, as its coerced value in every state, unless set() has written     *)
(* that path or an ancestor of it.                                         *)
C2_EnvOutranks ==
    pc = "loaded" =>
        \A v \in (DOMAIN env) \ overridden :
            get(configData, envMapping[v]) = Ok(Coerce(env[v]))

(* C3: after every set, reset or resetAll that completes without error the *)
(* persisted file holds the serialization of the in-memory tree.           *)
C3_WriteThrough ==
    (lastOp.op \in Mutating /\ lastOp.outcome = "ok") =>
        file = [kind |-> "json", doc |-> Stringify(configData)]

(* C4: a persist that fails makes the call that triggered it reject with   *)
(* the persist error; the call is never reported as successful.            *)
C4_PersistFailurePropagates ==
    (lastOp.op \in Mutating /\ lastOp.persists = 1 /\ ~writable) =>
        lastOp.outcome = "PersistError"

C4_Witness ==
    /\ lastOp.op = "reset" /\ lastOp.persists = 1 /\ ~writable
    /\ lastOp.outcome = "PersistError"

(* C5: load degrades per source: a malformed file or a failed project      *)
(* discovery contributes the empty tree and the tree is the merge of the   *)
(* remaining sources in precedence order.                                  *)
C5_LoadDegradesPerSource ==
    JustLoaded => configData = merge(EmptyObj, <<SrcFile, SrcProject, SrcEnv>>)

(* the key names the properties range over *)
AllKeys == {"a", "b", "c", "x", "network", "auth", "apiKey", "debug"}

PathABC == <<"a", ".", "b", ".", "c">>
PathAB == <<"a", ".", "b">>

TreeABC5 == Obj([k \in {"a"} |-> Obj([j \in {"b"} |-> Obj([i \in {"c"} |-> Num(5)])])])

(* every intermediate segment of p is absent from data or already a tree *)
Vivifiable(data, p) ==
    \A q \in ProperPrefixes(p) : ~Defines(data, q) \/ IsTree(GetLoop(data, q).value)

(* p resolves in data: every intermediate segment is a tree and the parent *)
(* owns the final key                                                      *)
Resolves(data, p) ==
    /\ \A q \in ProperPrefixes(p) : IsTree(GetLoop(data, q).value)
    /\ LET parent == GetLoop(data, SubSeq(p, 1, Len(p) - 1)).value
       IN  IsTree(parent) /\ p[Len(p)] \in DOMAIN parent.m

(* the step is a path-form set / a reset with a path, on a valid path *)
SetPathStep == lastOp'.op = "set" /\ nOps' = nOps + 1 /\ ValidPath(lastOp'.key)
ResetPathStep == lastOp'.op = "reset" /\ nOps' = nOps + 1 /\ ValidPath(lastOp'.key)

C7_VivificationReplacesNonTrees ==
    [][SetPathStep =>
        LET p == Split(lastOp'.key)
        IN  /\ lastOp'.outcome # "TypeError"
            /\ \A q \in ProperPrefixes(p) : IsTree(GetLoop(configData', q).value)
            /\ get(configData', lastOp'.key) = Ok(lastOp'.arg)]_vars

(* C8: get(path) never throws, and returns undefined as soon as a key on   *)
(* the path is absent or an intermediate value is not a tree.              *)
C8_GetMissingIsUndefined ==
    (lastOp.op = "get" /\ ValidPath(lastOp.key)) =>
        /\ lastOp.outcome = "ok"
        /\ ~Resolves(configData, Split(lastOp.key)) => lastOp.ret = Undef

C10_ResetPersistsOnce ==
    (lastOp.op = "reset" /\ lastOp.key # NoKey) => lastOp.persists = 1

(* C11: reset(path) with an intermediate segment that is absent or not a   *)
(* tree raises no error and leaves the in-memory tree unchanged.           *)
C11_ResetUnresolvedIsNoOp ==
    [][(ResetPathStep /\
        \E q \in ProperPrefixes(Split(lastOp'.key)) :
            ~IsTree(GetLoop(configData, q).value)) =>
        (lastOp'.outcome # "TypeError" /\ configData' = configData)]_vars

(* C12: resetAll() and reset() without a path have the same effect: the    *)
(* tree becomes empty, get() returns {}, and exactly one persist is made,  *)
(* which writes the empty tree or rejects the call.                        *)
C12_ResetAllIsResetNoPath ==
    [][((lastOp'.op = "resetAll" \/ (lastOp'.op = "reset" /\ lastOp'.key = NoKey))
        /\ nOps' = nOps + 1) =>
        /\ configData' = EmptyObj
        /\ get(configData', NoKey) = Ok(EmptyObj)
        /\ lastOp'.persists = 1
        /\ lastOp'.outcome = (IF writable THEN "ok" ELSE "PersistError")
        /\ file' = (IF writable THEN [kind |-> "json", doc |-> EmptyObj] ELSE file)]_vars

C12_Witness ==
    /\ lastOp.op = "resetAll" /\ lastOp.persists = 1 /\ lastOp.outcome = "ok"
    /\ configData = EmptyObj /\ file = [kind |-> "json", doc |-> EmptyObj]
    /\ nOps = 2

(* C13: get, set and reset called with the empty path string fail with     *)
(* InvalidPath and leave the in-memory tree and the persisted file as      *)
(* they were.                                                              *)
C13_EmptyPathRejected ==
    [][(lastOp'.op \in {"get", "set", "reset"} /\ lastOp'.key = << >>
        /\ nOps' = nOps + 1) =>
        (lastOp'.outcome = "InvalidPath" /\ configData' = configData /\ file' = file)]_vars

(* the step is a tree-form set *)
SetTreeStep == lastOp'.op = "set" /\ lastOp'.key = NoKey /\ nOps' = nOps + 1

(* the tree T puts a non-tree value on the way to p *)
ShadowedBy(T, p) ==
    \E q \in ProperPrefixes(p) : Defines(T, q) /\ ~IsTree(GetLoop(T, q).value)

(* C14: set(T) replaces the current tree C by merge(C, T): every leaf path *)
(* of T reads back T's value, every path of C that T does not define keeps *)
(* its value, and no key of C is removed.                                  *)
C14_SetTreeMerges ==
    [][SetTreeStep =>
        LET T == lastOp'.arg
        IN  /\ \A p \in PathsOf(T) :
                   ~IsTree(GetLoop(T, p).value) =>
                       GetLoop(configData', p) = Ok(GetLoop(T, p).value)
            /\ \A p \in PathsOf(configData) :
                   (~Defines(T, p) /\ ~ShadowedBy(T, p)) =>
                       /\ p \in PathsOf(configData')
                       /\ ~IsTree(GetLoop(configData, p).value) =>
                              GetLoop(configData', p) = GetLoop(configData, p)]_vars

(* the merge as stated: per key, the recursive merge when both sides are   *)
(* trees, else the override's value when it defines the key, else the      *)
(* base's value                                                            *)
RECURSIVE RightBiased(_, _)
RightBiased(A, B) ==
    Obj([k \in (DOMAIN A.m) \cup (DOMAIN B.m) |->
            IF k \in DOMAIN A.m /\ k \in DOMAIN B.m /\ IsTree(A.m[k]) /\ IsTree(B.m[k])
            THEN RightBiased(A.m[k], B.m[k])
            ELSE IF k \in DOMAIN B.m THEN B.m[k] ELSE A.m[k]])

(* C15: the deep merge of the store is right-biased and recursive: the     *)
(* tree after set(T) is the right-biased merge of the current tree and T.  *)
C15_MergeRightBiased ==
    [][SetTreeStep => configData' = RightBiased(configData, lastOp'.arg)]_vars

(* C16: where the current tree and the override both hold a sequence, the  *)
(* result holds exactly the override's sequence.                           *)
C16_SequencesReplaced ==
    [][SetTreeStep =>
        \A p \in PathsOf(lastOp'.arg) :
            (GetLoop(lastOp'.arg, p).value.t = "array"
             /\ GetLoop(configData, p).value.t = "array") =>
                GetLoop(configData', p) = Ok(GetLoop(lastOp'.arg, p).value)]_vars

----------------------------------------------------------------------------
(* The environment overlay on its own: every variable, registered or not,  *)
(* is absent or holds any of the texts below; no file, no project          *)
(* configuration.                                                           *)

EnvTextSet == {"true", "false", "12345", "", "mainnet"}

(* the process environment also holds variables the registry does not name *)
EnvNames == DOMAIN envMapping \cup {"SONOMA_TIMEOUT"}

EnvOverlayStates ==
    UNION {[S -> EnvTextSet] : S \in SUBSET EnvNames}

InitEnv ==
    /\ pc = "uninitialized"
    /\ configData = EmptyObj
    /\ file = [kind |-> "absent"]
    /\ project = [kind |-> "none"]
    /\ env \in EnvOverlayStates
    /\ writable = TRUE
    /\ lastOp = NoOp
    /\ nOps = 0
    /\ overridden = {}
    /\ hist = NoHist(file)
    /\ peer = NoPeer
    /\ retrying = NoRetry
    /\ heap = NoHeap

NextEnv ==
    \/ Constructor
    \/ \E key \in PathStrs \cup {NoKey, <<"debug">>} : Get(key)

SpecEnv == InitEnv /\ [][NextEnv]_vars

(* a text that looks like a number: a non-empty run of digits *)
NumericLooking(text) == text \in {"12345"}

(* the coercion as stated *)
StatedCoercion(text) ==
    IF text = "true" THEN Bool(TRUE)
    ELSE IF text = "false" THEN Bool(FALSE)
    ELSE IF NumericLooking(text) THEN Num(ToNumber(text).n)
    ELSE Str(text)

(* C17: the overlay holds, for each registered variable that is present,   *)
(* "true"/"false" as booleans, a numeric-looking text as a number and any  *)
(* other text unchanged; an absent variable contributes no key; with the   *)
(* debug variable set to "true", get("debug") === true.                    *)
C17_EnvCoercion ==
    JustLoaded =>
        /\ \A v \in DOMAIN envMapping :
               IF v \in DOMAIN env
               THEN GetLoop(getEnvConfig(env), Split(envMapping[v])) =
                        Ok(StatedCoercion(env[v]))
               ELSE ~Defines(getEnvConfig(env), Split(envMapping[v]))
        /\ ("SONOMA_DEBUG" \in DOMAIN env /\ env["SONOMA_DEBUG"] = "true") =>
               get(configData, <<"debug">>) = Ok(Bool(TRUE))

(* C18: the API key and the network selector are stored as strings at      *)
(* auth.apiKey and network, whatever their text looks like.                *)
C18_KeyAndNetworkAreStrings ==
    JustLoaded =>
        \A v \in {"SONOMA_API_KEY", "SONOMA_NETWORK"} \cap DOMAIN env :
            GetLoop(getEnvConfig(env), Split(envMapping[v])) = Ok(Str(env[v]))

----------------------------------------------------------------------------
(* One process after another: the process ends and the next one imports    *)
(* the module, whose singleton is constructed from the file the earlier    *)
(* process left, together with the project configuration and environment   *)
(* the next process finds.                                                  *)

Restart(p, e) ==
    /\ pc = "loaded" /\ lastOp.op # "load"
    /\ project' = p
    /\ env' = e
    /\ configData' = loadConfig(file, p, e)
    /\ lastOp' = [NoOp EXCEPT !.op = "load"]
    /\ overridden' = {}
    /\ UNCHANGED <<pc, file, writable, nOps, peer, retrying, heap>>
    /\ hist' = [NoHist(file) EXCEPT !.loads = 1]

NextRestart ==
    \/ Constructor
    \/ \E key \in PathStrs \cup {NoKey} : Get(key)
    \/ \E key \in PathStrs, value \in Vals : SetPath(key, value)
    \/ \E p \in ProjectStates, e \in EnvStates : Restart(p, e)

SpecRestart == Init /\ [][NextRestart]_vars

RestartStep == pc = "loaded" /\ lastOp'.op = "load"

(* values JSON can represent *)
JsonRepresentable(v) == v.t # "undefined"

(* C19: a JSON-representable value written by a set(path, v) that          *)
(* completed successfully is returned by get(path) in the next process     *)
(* after its load, when no later mutation touched the path and neither the *)
(* project source nor the environment of the next process defines it.      *)
C19_RestartRoundTrip ==
    [][(/\ RestartStep
        /\ lastOp.op = "set" /\ lastOp.outcome = "ok" /\ ValidPath(lastOp.key)
        /\ JsonRepresentable(lastOp.arg)
        /\ ~(project'.kind = "found" /\ Defines(project'.config, Split(lastOp.key)))
        /\ ~Defines(getEnvConfig(env'), Split(lastOp.key))) =>
        get(configData', lastOp.key) = Ok(lastOp.arg)]_vars

----------------------------------------------------------------------------
(* The command `config reset [key] [--all]`.  lastOp records the command:  *)
(* arg is the answer to the confirmation prompt (undefined when no prompt  *)
(* was shown), ret names the store method the command called, logs lists   *)
(* what the handler reported in order, sdk lists the SDK operations it     *)
(* invoked, rejected tells whether a store mutation it awaited rejected.   *)

(* resetConfig(key, options): `proceed` is the condition the handler tests *)
(* after the prompt has been answered with `confirm`                       *)
resetConfigBody(key, all, confirm, proceed) ==
    /\ pc = "loaded" /\ nOps < MaxOps
    /\ nOps' = nOps + 1
    /\ LET method == IF all THEN (IF proceed THEN "resetAll" ELSE "none")
                     ELSE IF key # NoKey /\ key # << >> THEN "reset"
                     ELSE "throw"
           r      == ResetLoop(configData, Split(key))
           data   == CASE method = "resetAll" -> EmptyObj
                       [] method = "reset" -> r.obj
                       [] OTHER -> configData
           saves  == method = "resetAll" \/ (method = "reset" /\ ~r.returned)
           s      == saveConfig(data, file, writable)
           failed == method = "throw" \/ (saves /\ s.threw)
       IN  /\ configData' = data
           /\ file' = IF saves THEN s.file ELSE file
           /\ pc' = IF failed THEN "exited" ELSE pc
           /\ lastOp' = [op |-> "config reset", key |-> key,
                         arg |-> IF all THEN Bool(confirm) ELSE Undef,
                         outcome |-> IF failed THEN "exit 1" ELSE "ok",
                         persists |-> IF saves THEN 1 ELSE 0,
                         ret |-> Str(method),
                         logs |-> IF failed THEN <<"error">>
                                  ELSE IF method = "none" THEN << >>
                                  ELSE <<"success">>,
                         sdk |-> << >>,
                         rejected |-> saves /\ s.threw]
    /\ UNCHANGED <<project, env, writable, overridden, hist, peer, retrying, heap>>

(* the handler calling resetAll without looking at the answer *)
resetConfig_NoPrompt(key, all, confirm) == resetConfigBody(key, all, confirm, TRUE)

resetConfig(key, all, confirm) == resetConfigBody(key, all, confirm, confirm)

NextCommand ==
    \/ Constructor
    \/ \E key \in PathStrs, value \in Vals : SetPath(key, value)
    \/ \E key \in PathStrs \cup {NoKey}, all \in BOOLEAN, confirm \in BOOLEAN :
           resetConfig(key, all, confirm)

SpecCommand == Init /\ [][NextCommand]_vars

ResetAllCommandStep ==
    lastOp'.op = "config reset" /\ nOps' = nOps + 1 /\ lastOp'.arg.t = "boolean"

(* C20: config reset --all calls resetAll only after the prompt has been   *)
(* answered with yes; when the prompt is declined resetAll is not called   *)
(* and the store is neither mutated nor persisted.                         *)
C20_ResetAllNeedsConfirmation ==
    [][ResetAllCommandStep =>
        /\ lastOp'.ret.s = "resetAll" => lastOp'.arg.b
        /\ ~lastOp'.arg.b =>
               /\ lastOp'.ret.s # "resetAll"
               /\ configData' = configData
               /\ file' = file
               /\ lastOp'.persists = 0]_vars

(* the prompt was declined over a store that holds a value *)
C20_Witness ==
    /\ lastOp.op = "config reset" /\ lastOp.arg.t = "boolean" /\ ~lastOp.arg.b
    /\ configData # EmptyObj
    /\ file.kind = "json"
    /\ nOps = 2

----------------------------------------------------------------------------
(* The other command handlers that mutate the store *)

(* JSON.parse of the value typed on the command line, the text itself when *)
(* it is not JSON                                                           *)
JSONParse(text) ==
    CASE text = "5" -> Num(5)
      [] text = "null" -> Null
      [] text = "true" -> Bool(TRUE)
      [] OTHER -> Str(text)

ValueTexts == {"5", "null", "mainnet"}

(* what a handler leaves in lastOp *)
Handled(op, key, arg, failed, persists, logs, sdk, rejected) ==
    [op |-> op, key |-> key, arg |-> arg,
     outcome |-> IF failed THEN "exit 1" ELSE "ok",
     persists |-> persists, ret |-> Undef,
     logs |-> logs, sdk |-> sdk, rejected |-> rejected]

(* setConfig reporting success before the awaited set has settled *)
setConfig_SuccessFirst(key, text) ==
    /\ pc = "loaded" /\ nOps < MaxOps
    /\ nOps' = nOps + 1
    /\ LET r == SetLoop(configData, Split(key), JSONParse(text))
           merged == merge(EmptyObj, <<r.obj, r.obj>>)
           s == saveConfig(merged, file, writable)
           failed == r.threw \/ s.threw
       IN  /\ configData' = IF r.threw THEN r.obj ELSE merged
           /\ file' = IF r.threw THEN file ELSE s.file
           /\ pc' = IF failed THEN "exited" ELSE pc
           /\ lastOp' = Handled("config set", key, Str(text), failed,
                                IF r.threw THEN 0 ELSE 1,
                                IF r.threw THEN <<"error">>
                                ELSE IF s.threw THEN <<"success", "error">>
                                ELSE <<"success">>,
                                << >>, ~r.threw /\ s.threw)
    /\ UNCHANGED <<project, env, writable, overridden, hist, peer, retrying, heap>>

(* setConfig(key, value): the nested structure is built in place on the    *)
(* object config.get() returns, which is then handed to config.set         *)
setConfig(key, text) ==
    /\ pc = "loaded" /\ nOps < MaxOps
    /\ nOps' = nOps + 1
    /\ LET r == SetLoop(configData, Split(key), JSONParse(text))
           merged == merge(EmptyObj, <<r.obj, r.obj>>)
           s == saveConfig(merged, file, writable)
           failed == r.threw \/ s.threw
       IN  /\ configData' = IF r.threw THEN r.obj ELSE merged
           /\ file' = IF r.threw THEN file ELSE s.file
           /\ pc' = IF failed THEN "exited" ELSE pc
           /\ lastOp' = Handled("config set", key, Str(text), failed,
                                IF r.threw THEN 0 ELSE 1,
                                IF failed THEN <<"error">> ELSE <<"success">>,
                                << >>, ~r.threw /\ s.threw)
    /\ UNCHANGED <<project, env, writable, overridden, hist, peer, retrying, heap>>

(* configureWallet: importWallet and createWallet both throw, whichever    *)
(* branch the options or the prompt select                                 *)
configureWallet ==
    /\ pc = "loaded" /\ nOps < MaxOps
    /\ nOps' = nOps + 1
    /\ pc' = "exited"
    /\ lastOp' = Handled("config wallet", NoKey, Undef, TRUE, 0, <<"error">>,
                         << >>, FALSE)
    /\ UNCHANGED <<configData, file, project, env, writable, overridden, hist, peer, retrying, heap>>

NetworkNames == {"devnet", "mainnet"}

getDefaultUrl(network) ==
    CASE network = "mainnet" -> "https://api.mainnet-beta.solana.com"
      [] network = "testnet" -> "https://api.testnet.solana.com"
      [] OTHER -> "https://api.devnet.solana.com"

(* configureNetwork(network): the name given or selected at the prompt *)
configureNetwork(network) ==
    /\ pc = "loaded" /\ nOps < MaxOps
    /\ nOps' = nOps + 1
    /\ LET networkConfig == Obj([k \in {"name", "url"} |->
                                   IF k = "name" THEN Str(network)
                                   ELSE Str(getDefaultUrl(network))])
           r == SetLoop(configData, <<"network">>, networkConfig)
           s == saveConfig(r.obj, file, writable)
           failed == r.threw \/ s.threw
       IN  /\ configData' = r.obj
           /\ file' = IF r.threw THEN file ELSE s.file
           /\ pc' = IF failed THEN "exited" ELSE pc
           /\ lastOp' = Handled("config network", <<"network">>, networkConfig,
                                failed, IF r.threw THEN 0 ELSE 1,
                                IF failed THEN <<"error">> ELSE <<"success">>,
                                << >>, ~r.threw /\ s.threw)
    /\ UNCHANGED <<project, env, writable, overridden, hist, peer, retrying, heap>>

(* what a part of a handler did: the tree and file it leaves, whether it   *)
(* threw, its persists, reports and SDK operations, and whether a store    *)
(* mutation rejected                                                        *)
Did(data, disk, failed, persists, logs, sdk, rejected) ==
    [data |-> data, file |-> disk, failed |-> failed, persists |-> persists,
     logs |-> logs, sdk |-> sdk, rejected |-> rejected]

(* the tail of Config.set: r is what the navigation loop and the final     *)
(* assignment left, s what saveConfig did                                  *)
SetResult(r, s, disk) ==
    [data |-> r.obj,
     file |-> IF r.threw THEN disk ELSE s.file,
     threw |-> r.threw \/ s.threw,
     persists |-> IF r.threw THEN 0 ELSE 1]

SetAndSave(r, disk) == SetResult(r, saveConfig(r.obj, disk, writable), disk)

(* Config.set in its path form as one call: the tree and the file it       *)
(* leaves, whether it rejected, how many times it persisted                *)
StoreSet(data, disk, key, value) ==
    SetAndSave(SetLoop(data, Split(key), value), disk)

Now == Str("<now>")

AgentNames == {"bot"}

AgentKey(name) == Join(<<"agents", name>>)
DeploymentKey(name) == Join(<<"agents", name, "deployment">>)

AgentEntry(name) ==
    Obj([k \in {"name", "config", "createdAt", "updatedAt"} |->
            CASE k = "name" -> Str(name)
              [] k = "config" -> EmptyObj
              [] OTHER -> Now])

(* the init action after its reads: g is config.get(`agents.${name}`), st  *)
(* the awaited config.set; `valid` and `built` are the outcomes of         *)
(* validateAgentName and buildAgentConfig                                  *)
initBody(valid, force, built, g, st) ==
    IF ~valid \/ g.threw \/ (Truthy(g.value) /\ ~force)
    THEN Did(configData, file, TRUE, 0, <<"error">>, << >>, FALSE)
    ELSE IF ~built
    THEN Did(configData, file, TRUE, 0, <<"fail", "error">>, << >>, FALSE)
    ELSE IF st.threw
    THEN Did(st.data, st.file, TRUE, st.persists, <<"fail", "error">>, << >>, TRUE)
    ELSE Did(st.data, st.file, FALSE, st.persists, <<"success">>, << >>, FALSE)

initAction(name, valid, force, built) ==
    initBody(valid, force, built, get(configData, AgentKey(name)),
             StoreSet(configData, file, AgentKey(name), AgentEntry(name)))

DeploymentInfo ==
    Obj([k \in {"address", "network", "deployedAt", "status"} |->
            CASE k = "address" -> Str("<address>")
              [] k = "network" -> Str("devnet")
              [] k = "deployedAt" -> Now
              [] OTHER -> Str("deployed")])

(* handleDeployAgent; failAt is the SDK call that throws, 0 for none; st   *)
(* is the awaited config.set                                               *)
deployBody(failAt, st) ==
    IF failAt = 1
    THEN Did(configData, file, TRUE, 0, << >>, <<"deployAgent">>, FALSE)
    ELSE IF st.threw
    THEN Did(st.data, st.file, TRUE, st.persists, << >>, <<"deployAgent">>, TRUE)
    ELSE Did(st.data, st.file, FALSE, st.persists, <<"success">>, <<"deployAgent">>, FALSE)

handleDeployAgent(name, failAt) ==
    deployBody(failAt, StoreSet(configData, file, DeploymentKey(name), DeploymentInfo))

(* handleUpdateAgent; d is config.get of the deployment entry *)
updateBody(failAt, d, st) ==
    IF d.threw \/ ~Truthy(d.value)
    THEN Did(configData, file, TRUE, 0, << >>, << >>, FALSE)
    ELSE IF failAt = 1
    THEN Did(configData, file, TRUE, 0, << >>, <<"Agent.load">>, FALSE)
    ELSE IF failAt = 2
    THEN Did(configData, file, TRUE, 0, << >>, <<"Agent.load", "updateConfig">>, FALSE)
    ELSE IF st.threw
    THEN Did(st.data, st.file, TRUE, st.persists, << >>,
             <<"Agent.load", "updateConfig">>, TRUE)
    ELSE Did(st.data, st.file, FALSE, st.persists, <<"success">>,
             <<"Agent.load", "updateConfig">>, FALSE)

handleUpdateAgent(name, failAt) ==
    updateBody(failAt, get(configData, DeploymentKey(name)),
               StoreSet(configData, file,
                        Join(<<"agents", name, "deployment", "updatedAt">>), Now))

(* handleStopAgent; s1 and s2 are its two awaited config.set calls *)
stopBody(failAt, d, s1, s2) ==
    IF d.threw \/ ~Truthy(d.value)
    THEN Did(configData, file, TRUE, 0, << >>, << >>, FALSE)
    ELSE IF failAt = 1
    THEN Did(configData, file, TRUE, 0, << >>, <<"Agent.load">>, FALSE)
    ELSE IF failAt = 2
    THEN Did(configData, file, TRUE, 0, << >>, <<"Agent.load", "close">>, FALSE)
    ELSE IF s1.threw
    THEN Did(s1.data, s1.file, TRUE, s1.persists, << >>,
             <<"Agent.load", "close">>, TRUE)
    ELSE IF s2.threw
    THEN Did(s2.data, s2.file, TRUE, s1.persists + s2.persists, << >>,
             <<"Agent.load", "close">>, TRUE)
    ELSE Did(s2.data, s2.file, FALSE, s1.persists + s2.persists, <<"success">>,
             <<"Agent.load", "close">>, FALSE)

stopSecond(name, failAt, d, s1) ==
    stopBody(failAt, d, s1,
             StoreSet(s1.data, s1.file,
                      Join(<<"agents", name, "deployment", "stoppedAt">>), Now))

handleStopAgent(name, failAt) ==
    stopSecond(name, failAt, get(configData, DeploymentKey(name)),
               StoreSet(configData, file,
                        Join(<<"agents", name, "deployment", "status">>),
                        Str("stopped")))

(* the handler the options select *)
handleAction(name, act, failAt) ==
    CASE act = "stop" -> handleStopAgent(name, failAt)
      [] act = "update" -> handleUpdateAgent(name, failAt)
      [] OTHER -> handleDeployAgent(name, failAt)

(* monitorAgent after the handler h; m is its config.get of the deployment *)
monitorAgent(failAt, h, m) ==
    IF m.threw \/ ~Truthy(m.value)
    THEN Did(h.data, h.file, TRUE, h.persists, h.logs \o <<"fail", "error">>,
             h.sdk, FALSE)
    ELSE IF failAt = Len(h.sdk) + 1
    THEN Did(h.data, h.file, TRUE, h.persists, h.logs \o <<"fail", "error">>,
             h.sdk \o <<"Agent.load">>, FALSE)
    ELSE Did(h.data, h.file, FALSE, h.persists, h.logs,
             h.sdk \o <<"Agent.load">>, FALSE)

(* the deploy action after its reads: g is config.get(`agents.${name}`),   *)
(* wallet is config.get('wallet') of initializeSDK, h the handler          *)
deployChecks(name, valid, act, monitor, failAt, g, wallet, h) ==
    IF ~valid \/ g.threw \/ ~Truthy(g.value)
    THEN Did(configData, file, TRUE, 0, <<"error">>, << >>, FALSE)
    ELSE IF ~Truthy(wallet)
    THEN Did(configData, file, TRUE, 0, <<"fail", "error">>, << >>, FALSE)
    ELSE IF h.failed
    THEN Did(h.data, h.file, TRUE, h.persists, h.logs \o <<"fail", "error">>,
             h.sdk, h.rejected)
    ELSE IF monitor /\ act # "stop"
    THEN monitorAgent(failAt, h, get(h.data, DeploymentKey(name)))
    ELSE h

(* the deploy action with initializeSDK not looking at the wallet *)
deployAction_NoWalletCheck(name, valid, act, monitor, failAt) ==
    deployChecks(name, valid, act, monitor, failAt,
                 get(configData, AgentKey(name)), Str("<unchecked>"),
                 handleAction(name, act, failAt))

(* the deploy action: validation, initializeSDK, the handler the options   *)
(* select, then monitorAgent when asked for                                *)
deployAction(name, valid, act, monitor, failAt) ==
    deployChecks(name, valid, act, monitor, failAt,
                 get(configData, AgentKey(name)),
                 get(configData, <<"wallet">>).value,
                 handleAction(name, act, failAt))

(* a handler run as one step of the process: process.exit(1) on failure *)
Run(op, key, d) ==
    /\ pc = "loaded" /\ nOps < MaxOps
    /\ nOps' = nOps + 1
    /\ configData' = d.data
    /\ file' = d.file
    /\ pc' = IF d.failed THEN "exited" ELSE pc
    /\ lastOp' = Handled(op, key, Undef, d.failed, d.persists, d.logs, d.sdk,
                         d.rejected)
    /\ UNCHANGED <<project, env, writable, overridden, hist, peer, retrying, heap>>

initCommand(name, valid, force, built) ==
    Run("init", AgentKey(name), initAction(name, valid, force, built))

deployCommand(name, valid, act, monitor, failAt) ==
    Run("deploy", AgentKey(name), deployAction(name, valid, act, monitor, failAt))

DocAgent ==
    Obj([k \in {"agents", "wallet"} |->
            IF k = "wallet" THEN Str("<wallet>")
            ELSE Obj([n \in {"bot"} |-> Obj([j \in {"name"} |-> Str("bot")])])])

DocDeployed ==
    Obj([k \in {"agents", "wallet"} |->
            IF k = "wallet" THEN Str("<wallet>")
            ELSE Obj([n \in {"bot"} |->
                    Obj([j \in {"name", "deployment"} |->
                            IF j = "name" THEN Str("bot")
                            ELSE Obj([i \in {"status"} |-> Str("deployed")])])])])

DocNoWallet ==
    Obj([k \in {"agents"} |->
            Obj([n \in {"bot"} |-> Obj([j \in {"name"} |-> Str("bot")])])])

CliFiles ==
    {[kind |-> "absent"]} \cup
    {[kind |-> "json", doc |-> d] : d \in {Doc1, DocAgent, DocDeployed, DocNoWallet}}

CliKeys == PathStrs \cup {<<"wallet">>, AgentKey("bot")}

InitCli ==
    /\ pc = "uninitialized"
    /\ configData = EmptyObj
    /\ file \in CliFiles
    /\ project = [kind |-> "none"]
    /\ env \in {[v \in {} |-> ""], [v \in {"SONOMA_NETWORK"} |-> EnvText[v]]}
    /\ writable \in BOOLEAN
    /\ lastOp = NoOp
    /\ nOps = 0
    /\ overridden = {}
    /\ hist = NoHist(file)
    /\ peer = NoPeer
    /\ retrying = NoRetry
    /\ heap = NoHeap

NextCli ==
    \/ Constructor
    \/ \E key \in CliKeys, text \in ValueTexts : setConfig(key, text)
    \/ \E key \in PathStrs \cup {NoKey}, all \in BOOLEAN, confirm \in BOOLEAN :
           resetConfig(key, all, confirm)
    \/ configureWallet
    \/ \E network \in NetworkNames : configureNetwork(network)
    \/ \E name \in AgentNames, valid \in BOOLEAN, force \in BOOLEAN, built \in BOOLEAN :
           initCommand(name, valid, force, built)
    \/ \E name \in AgentNames, valid \in BOOLEAN, act \in {"deploy", "update", "stop"},
          monitor \in BOOLEAN, failAt \in 0..3 :
           deployCommand(name, valid, act, monitor, failAt)

SpecCli == InitCli /\ [][NextCli]_vars

Handlers ==
    {"config set", "config reset", "config wallet", "config network", "init", "deploy"}

HandlerStep == lastOp'.op \in Handlers /\ nOps' = nOps + 1

(* C21: when a store mutation rejects inside a command handler, the        *)
(* handler reports through the error logger, the process exits with a      *)
(* non-zero status, and no success is reported.                            *)
C21_FailedMutationExits ==
    [][(HandlerStep /\ lastOp'.rejected) =>
        /\ \E i \in 1..Len(lastOp'.logs) : lastOp'.logs[i] = "error"
        /\ \A i \in 1..Len(lastOp'.logs) : lastOp'.logs[i] # "success"
        /\ lastOp'.outcome = "exit 1"
        /\ pc' = "exited"]_vars

(* the second set of `deploy --stop` rejected, or a set of any handler *)
C21_Witness ==
    /\ lastOp.op \in {"deploy", "init", "config set"}
    /\ lastOp.rejected
    /\ pc = "exited"

DeployStep == lastOp'.op = "deploy" /\ nOps' = nOps + 1

----------------------------------------------------------------------------
(* retry(fn, options).  `retrying` holds the call: its options, the call   *)
(* of fn that is the first to succeed (0 when fn always fails), the local  *)
(* variables attempt and timeout, how many times fn has been invoked, the  *)
(* invocation whose error was thrown, and where the call stands.           *)

DefaultRetries == 3
DefaultMinTimeout == 1000
DefaultMaxTimeout == 10000
DefaultFactor == 2

MaxRetries == 3
MaxSucceedAt == 4

Option(o, name, default) == IF name \in DOMAIN o THEN o[name] ELSE default

Min(a, b) == IF a <= b THEN a ELSE b

(* no options, a number of retries, the options object of the test suite,  *)
(* and one with every timing option                                        *)
RetryOptions ==
    {[x \in {} |-> 0]}
    \cup {[x \in {"retries"} |-> n] : n \in 0..MaxRetries}
    \cup {[x \in {"maxAttempts", "delay"} |-> IF x = "delay" THEN 10 ELSE 2]}
    \cup {[x \in {"retries", "minTimeout", "maxTimeout", "factor"} |->
              CASE x = "retries" -> 2
                [] x = "minTimeout" -> 10
                [] x = "maxTimeout" -> 15
                [] OTHER -> 2]}

InitRetry ==
    /\ pc = "uninitialized"
    /\ configData = EmptyObj
    /\ file = [kind |-> "absent"]
    /\ project = [kind |-> "none"]
    /\ env = [v \in {} |-> ""]
    /\ writable = TRUE
    /\ lastOp = NoOp
    /\ nOps = 0
    /\ overridden = {}
    /\ hist = NoHist(file)
    /\ peer = NoPeer
    /\ heap = NoHeap
    /\ \E o \in RetryOptions, k \in 0..MaxSucceedAt :
           retrying = [status |-> "calling", options |-> o, succeedAt |-> k,
                       attempt |-> 0,
                       timeout |-> Option(o, "minTimeout", DefaultMinTimeout),
                       calls |-> 0, error |-> 0]

(* one turn of the loop: await fn(), and on its rejection count the        *)
(* attempt, rethrow or lengthen the timeout and go to sleep                *)
CallFn ==
    /\ retrying.status = "calling"
    /\ LET n == retrying.calls + 1
           o == retrying.options
       IN  IF retrying.succeedAt # 0 /\ n >= retrying.succeedAt
           THEN retrying' = [retrying EXCEPT !.calls = n, !.status = "resolved"]
           ELSE IF retrying.attempt + 1 >= Option(o, "retries", DefaultRetries)
           THEN retrying' = [retrying EXCEPT !.calls = n, !.attempt = @ + 1,
                                             !.error = n, !.status = "rejected"]
           ELSE retrying' = [retrying EXCEPT
                                !.calls = n, !.attempt = @ + 1,
                                !.timeout = Min(@ * Option(o, "factor", DefaultFactor),
                                                Option(o, "maxTimeout", DefaultMaxTimeout)),
                                !.status = "sleeping"]
    /\ UNCHANGED <<pc, configData, file, project, env, writable, lastOp, nOps,
                   overridden, hist, peer, heap>>

(* the sleep is over *)
Wake ==
    /\ retrying.status = "sleeping"
    /\ retrying' = [retrying EXCEPT !.status = "calling"]
    /\ UNCHANGED <<pc, configData, file, project, env, writable, lastOp, nOps,
                   overridden, hist, peer, heap>>

NextRetry == CallFn \/ Wake

SpecRetry == InitRetry /\ [][NextRetry]_vars /\ WF_vars(NextRetry)

(* the maximum number of attempts the options give *)
MaxAttemptsGiven(o) ==
    IF "maxAttempts" \in DOMAIN o THEN o["maxAttempts"]
    ELSE Option(o, "retries", DefaultRetries)

RetrySettled == retrying.status \in {"resolved", "rejected"}

RetryWithinMaximum ==
    LET M == MaxAttemptsGiven(retrying.options)
        k == retrying.succeedAt
    IN  /\ retrying.calls <= M
        /\ retrying.status = "rejected" =>
               retrying.calls = M /\ retrying.error = M /\ ~(k \in 1..M)
        /\ retrying.status = "resolved" => retrying.calls = k /\ k \in 1..M

(* C23: retry invokes fn at most the maximum number of attempts its        *)
(* options give; when fn always fails it is invoked exactly that many      *)
(* times and retry rejects with the last error; when fn first succeeds on  *)
(* call k within the maximum retry resolves after exactly k calls; retry   *)
(* always terminates.                                                      *)
C23_RetryBounded == [](RetryWithinMaximum) /\ <>RetrySettled

----------------------------------------------------------------------------
(* the environment without the variables the registry does not name *)
RegisteredOnly(e) == [v \in DOMAIN e \cap DOMAIN envMapping |-> e[v]]

(* C24: unregistered environment variables never influence the             *)
(* configuration: the tree load yields, and the result of every get after  *)
(* it, are those of a process whose environment holds the registered       *)
(* variables alone, with the same file and project configuration.          *)
C24_UnregisteredIgnored ==
    pc = "loaded" =>
        /\ configData = loadConfig(file, project, RegisteredOnly(env))
        /\ lastOp.op = "get" =>
               lastOp.ret = get(loadConfig(file, project, RegisteredOnly(env)),
                                lastOp.key).value

C24_Witness ==
    /\ pc = "loaded" /\ lastOp.op = "get" /\ lastOp.key = NoKey
    /\ "SONOMA_TIMEOUT" \in DOMAIN env /\ env["SONOMA_TIMEOUT"] = "12345"
    /\ "SONOMA_NETWORK" \in DOMAIN env
    /\ Defines(configData, <<"network">>)

----------------------------------------------------------------------------
(* Config.getInstance() called again after the module has built the store *)

(* getInstance building a new Config on every call *)
GetInstance_Reload ==
    /\ pc = "loaded" /\ nOps < MaxOps
    /\ nOps' = nOps + 1
    /\ configData' = loadConfig(file, project, env)
    /\ hist' = [hist EXCEPT !.loads = @ + 1]
    /\ lastOp' = [NoOp EXCEPT !.op = "getInstance"]
    /\ UNCHANGED <<pc, file, project, env, writable, overridden, peer, retrying, heap>>

GetInstance ==
    /\ pc = "loaded" /\ nOps < MaxOps
    /\ nOps' = nOps + 1
    /\ lastOp' = [NoOp EXCEPT !.op = "getInstance"]
    /\ UNCHANGED <<pc, configData, file, project, env, writable, overridden,
                   hist, peer, retrying, heap>>

NextSingleton ==
    \/ Constructor
    \/ GetInstance
    \/ \E key \in PathStrs \cup {NoKey} : Get(key)
    \/ \E key \in PathStrs, value \in Vals : SetPath(key, value)
    \/ \E key \in PathStrs \cup {NoKey} : Reset(key)

SpecSingleton == Init /\ [][NextSingleton]_vars

(* C25: the load runs exactly once, before any get, set or reset observes  *)
(* the tree (uninitialized -> loaded); later accesses to the store never   *)
(* run it again, so the tree that set and reset have produced is never     *)
(* replaced by a reload.                                                   *)
C25_LoadsOnce ==
    /\ [](/\ hist.loads = (IF pc = "uninitialized" THEN 0 ELSE 1)
          /\ lastOp.op \in {"get", "set", "reset", "getInstance"} => hist.loads = 1)
    /\ [][/\ pc = "uninitialized" => pc' = "loaded" /\ lastOp'.op = "load"
          /\ pc = "loaded" => pc' = "loaded" /\ hist'.loads = hist.loads
          /\ lastOp'.op = "getInstance" => configData' = configData]_vars

(* the store is reached again while it holds what a reload would not give *)
C25_Witness ==
    /\ lastOp.op = "getInstance" /\ hist.written # {}
    /\ configData # loadConfig(file, project, env)
    /\ hist.loads = 1

----------------------------------------------------------------------------
(* A second process on the same persisted file.  `peer` holds its store:   *)
(* where it stands, its tree, the file it loaded, the paths it has written *)
(* and its last set.                                                        *)

InitRace ==
    /\ pc = "uninitialized"
    /\ configData = EmptyObj
    /\ file \in FileStates
    /\ project \in {[kind |-> "none"], [kind |-> "found", config |-> Proj1]}
    /\ env \in {[v \in {} |-> ""], [v \in {"SONOMA_NETWORK"} |-> EnvText[v]]}
    /\ writable \in BOOLEAN
    /\ lastOp = NoOp
    /\ nOps = 0
    /\ overridden = {}
    /\ hist = NoHist(file)
    /\ peer = [pc |-> "uninitialized", configData |-> EmptyObj, start |-> file,
               written |-> {}, last |-> NoOp]
    /\ retrying = NoRetry
    /\ heap = NoHeap

(* new Config() in the second process *)
PeerConstructor ==
    /\ peer.pc = "uninitialized"
    /\ peer' = [peer EXCEPT !.pc = "loaded",
                            !.configData = loadConfig(file, project, env),
                            !.start = file]
    /\ UNCHANGED <<pc, configData, file, project, env, writable, lastOp, nOps,
                   overridden, hist, retrying, heap>>

(* config.set(key, value) in the second process *)
PeerSetPath(key, value) ==
    /\ peer.pc = "loaded" /\ nOps < MaxOps
    /\ nOps' = nOps + 1
    /\ LET r == SetLoop(peer.configData, Split(key), value)
           s == saveConfig(r.obj, file, writable)
       IN  /\ file' = IF r.threw THEN file ELSE s.file
           /\ peer' = [peer EXCEPT
                          !.configData = r.obj,
                          !.written = @ \cup {Split(key)},
                          !.last = [op |-> "set", key |-> key, arg |-> value,
                                    outcome |-> IF r.threw THEN "TypeError"
                                                ELSE IF s.threw THEN "PersistError"
                                                ELSE "ok",
                                    persists |-> IF r.threw THEN 0 ELSE 1,
                                    ret |-> Undef]]
    /\ UNCHANGED <<pc, configData, project, env, writable, lastOp, overridden,
                   hist, retrying, heap>>

NextRace ==
    \/ Constructor
    \/ PeerConstructor
    \/ \E key \in PathStrs, value \in Vals : SetPath(key, value)
    \/ \E key \in PathStrs, value \in Vals : PeerSetPath(key, value)

SpecRace == InitRace /\ [][NextRace]_vars

(* both processes loaded the same file; the first process has made one     *)
(* successful set and the second now makes its one successful set, on      *)
(* another key                                                             *)
PeerPersistsLast ==
    /\ pc = "loaded" /\ peer.pc = "loaded" /\ hist.start = peer.start
    /\ hist.written = {Split(lastOp.key)} /\ hist.kinds = {<<"set", "ok">>}
    /\ peer.written = {} /\ peer'.written # {}
    /\ peer'.last.outcome = "ok"
    /\ peer'.last.key # lastOp.key

(* the same with the roles exchanged *)
SelfPersistsLast ==
    /\ pc = "loaded" /\ peer.pc = "loaded" /\ hist.start = peer.start
    /\ peer.written = {Split(peer.last.key)} /\ peer.last.outcome = "ok"
    /\ hist.written = {} /\ hist'.written # {}
    /\ lastOp'.op = "set" /\ lastOp'.outcome = "ok"
    /\ lastOp'.key # peer.last.key

(* C26 as stated: the final file is the full tree of the process that      *)
(* persisted last, and the key the other process wrote is absent from it.  *)
C26_LostUpdateKeyAbsent ==
    [][/\ PeerPersistsLast =>
              /\ file'.doc = Stringify(peer'.configData)
              /\ ~Defines(file'.doc, Split(lastOp.key))
       /\ SelfPersistsLast =>
              /\ file'.doc = Stringify(configData')
              /\ ~Defines(file'.doc, Split(peer.last.key))]_vars

(* the tree a process holds after loading the file f and making one set *)
LoadedThenSet(f, key, value) ==
    SetLoop(loadConfig(f, project, env), Split(key), value).obj

(* C26, amended: the final file is the full tree of the process that       *)
(* persisted last, which is what that process loaded with its own set      *)
(* applied; nothing the other process wrote is merged in, so the other     *)
(* key is in the file only if the last writer's own tree holds it, with    *)
(* the last writer's value.                                                *)
C26_LastWriterWins ==
    [][/\ PeerPersistsLast =>
              /\ file'.doc = Stringify(peer'.configData)
              /\ file'.doc = Stringify(LoadedThenSet(peer.start, peer'.last.key,
                                                     peer'.last.arg))
       /\ SelfPersistsLast =>
              /\ file'.doc = Stringify(configData')
              /\ file'.doc = Stringify(LoadedThenSet(hist.start, lastOp'.key,
                                                     lastOp'.arg))]_vars

(* the second process persisted last and the file lacks what the first     *)
(* process had written                                                     *)
C26_Witness ==
    /\ pc = "loaded" /\ peer.pc = "loaded" /\ hist.start = peer.start
    /\ lastOp.op = "set" /\ lastOp.outcome = "ok" /\ lastOp.key = PathABC
    /\ lastOp.arg = Num(5)
    /\ peer.last.op = "set" /\ peer.last.outcome = "ok"
    /\ peer.last.key = <<"network">>
    /\ file.kind = "json" /\ file.doc = Stringify(peer.configData)
    /\ ~Defines(file.doc, Split(PathABC))
    /\ Defines(configData, Split(PathABC))

----------------------------------------------------------------------------
(* the path p, an ancestor or a descendant of it has been written *)
Touched(p) == \E q \in hist.written : IsPrefix(q, p) \/ IsPrefix(p, q)

OnlySuccessfulSets == hist.kinds = {<<"set", "ok">>}

(* C28: after load and successful set calls only, every path the           *)
(* well-formed file held at process start, and that no set wrote (nor an   *)
(* ancestor or descendant of it), is still in the persisted file, with the *)
(* file's value or that of a higher-precedence source, whatever happened   *)
(* to the other sources during load.                                       *)
C28_SetKeepsFileContent ==
    (pc = "loaded" /\ hist.start.kind = "json" /\ OnlySuccessfulSets) =>
        \A p \in PathsOf(hist.start.doc) :
            ~Touched(p) =>
                /\ file.kind = "json"
                /\ Defines(file.doc, p)
                /\ ~IsTree(GetLoop(hist.start.doc, p).value) =>
                       GetLoop(file.doc, p).value \in
                           {GetLoop(hist.start.doc, p).value,
                            GetLoop(SrcProject, p).value,
                            GetLoop(SrcEnv, p).value}

----------------------------------------------------------------------------
(* the tree the mutating call recorded in lastOp' makes of the tree it found *)
MutationOf(data, call) ==
    CASE call.op = "set" /\ call.key # NoKey -> SetLoop(data, Split(call.key), call.arg).obj
      [] call.op = "set" -> merge(EmptyObj, <<data, call.arg>>)
      [] call.op = "reset" /\ call.key # NoKey /\ call.key # << >> ->
             ResetLoop(data, Split(call.key)).obj
      [] OTHER -> EmptyObj

(* C29: when the persist step of set, reset or resetAll fails, the tree in *)
(* memory keeps the mutation of that call and the file is left without it; *)
(* later get calls in the same process read the new tree.                  *)
C29_NoRollback ==
    [][/\ (lastOp'.op \in Mutating /\ nOps' = nOps + 1
           /\ lastOp'.outcome = "PersistError") =>
              /\ configData' = MutationOf(configData, lastOp')
              /\ file' = file
              /\ (lastOp'.op = "set" /\ ValidPath(lastOp'.key)) =>
                     get(configData', lastOp'.key) = Ok(lastOp'.arg)
       /\ (lastOp'.op = "get" /\ nOps' = nOps + 1) =>
              /\ configData' = configData
              /\ lastOp'.ret = get(configData, lastOp'.key).value]_vars

(* a get after a set whose persist failed reads the value the file lacks *)
C29_Witness ==
    /\ lastOp.op = "get" /\ lastOp.key = PathABC /\ lastOp.ret = Num(5)
    /\ hist.kinds = {<<"set", "PersistError">>}
    /\ ~Defines(fileConfig(file), Split(PathABC))
    /\ ~writable

----------------------------------------------------------------------------
(* the tree this process loaded *)
LoadedTree == loadConfig(hist.start, project, env)

(* the paths at which the loaded tree holds a value that the source src    *)
(* contributed                                                             *)
ContributedBy(src) ==
    {p \in PathsOf(LoadedTree) :
        /\ ~IsTree(GetLoop(LoadedTree, p).value)
        /\ Defines(src, p)
        /\ GetLoop(src, p).value = GetLoop(LoadedTree, p).value}

SomeSetSucceeded == <<"set", "ok">> \in hist.kinds

FileKeepsContributions ==
    (pc = "loaded" /\ SomeSetSucceeded) =>
        \A p \in ContributedBy(SrcProject) \cup ContributedBy(SrcEnv) :
            ~Touched(p) =>
                /\ file.kind = "json"
                /\ GetLoop(file.doc, p).value = GetLoop(Stringify(LoadedTree), p).value

(* the registered variable mapped to the path p *)
VarOf(p) == CHOOSE v \in DOMAIN envMapping : Split(envMapping[v]) = p

NextProcessReadsFile ==
    (RestartStep /\ SomeSetSucceeded) =>
        \A p \in ContributedBy(SrcEnv) :
            (/\ ~Touched(p)
             /\ VarOf(p) \notin DOMAIN env'
             /\ ~(project'.kind = "found" /\
                  \E q \in ProperPrefixes(p) \cup {p} : Defines(project'.config, q))) =>
                get(configData', Join(p)) = Ok(GetLoop(LoadedTree, p).value)

(* C30: every persist writes the whole merged tree: after the first        *)
(* successful set the file holds every value the project and environment   *)
(* sources contributed at load and that has not been overwritten or reset  *)
(* since, and a later process started without the variable still reads the *)
(* value from the file.                                                    *)
C30_FileAbsorbsSources ==
    [](FileKeepsContributions) /\ [][NextProcessReadsFile]_vars

----------------------------------------------------------------------------
(* Object identity.  In this scenario the trees live in memory: `heap`     *)
(* holds the cells allocated so far (a plain object or an array whose      *)
(* slots are primitives or references to other cells), the reference to    *)
(* the store's tree this.configData, and the trees that callers and        *)
(* loadConfig hold, each with the value it had when it was handed over.    *)

Ref(a) == [t |-> "ref", a |-> a]
IsRef(s) == s.t = "ref"

(* cell[k] and cell[k] = slot for a key name k *)
HeapHas(cell, k) == k \in DOMAIN (IF cell.t = "object" THEN cell.m ELSE cell.p)

HeapGet(cell, k) ==
    IF HeapHas(cell, k) THEN (IF cell.t = "object" THEN cell.m[k] ELSE cell.p[k])
    ELSE Undef

HeapPut(cell, k, slot) ==
    IF cell.t = "object" THEN Obj(Put(cell.m, k, slot))
    ELSE Arr(cell.e, Put(cell.p, k, slot))

(* cell[i] = slot for an index i of an array, at most one past its end *)
HeapPutAt(cell, i, slot) ==
    Arr(IF i <= Len(cell.e) THEN [cell.e EXCEPT ![i] = slot] ELSE Append(cell.e, slot),
        cell.p)

RECURSIVE Alloc(_, _)
RECURSIVE AllocMap(_, _, _, _)
RECURSIVE AllocElems(_, _, _, _)

AllocMap(c, m, todo, acc) ==
    IF todo = {} THEN [c |-> c, m |-> acc]
    ELSE LET k == CHOOSE x \in todo : TRUE
             r == Alloc(c, m[k])
         IN  AllocMap(r.c, m, todo \ {k}, Put(acc, k, r.s))

AllocElems(c, e, i, acc) ==
    IF i > Len(e) THEN [c |-> c, e |-> acc]
    ELSE LET r == Alloc(c, e[i])
         IN  AllocElems(r.c, e, i + 1, Append(acc, r.s))

(* a tree newly built in memory (by JSON.parse, by the project search, by  *)
(* getEnvConfig or by a caller): the memory after it and the slot holding  *)
(* it                                                                      *)
Alloc(c, v) ==
    CASE v.t = "object" ->
            LET r == AllocMap(c, v.m, DOMAIN v.m, EmptyMap)
            IN  [c |-> Append(r.c, Obj(r.m)), s |-> Ref(Len(r.c) + 1)]
      [] v.t = "array" ->
            LET r1 == AllocElems(c, v.e, 1, << >>)
                r2 == AllocMap(r1.c, v.p, DOMAIN v.p, EmptyMap)
            IN  [c |-> Append(r2.c, Arr(r1.e, r2.m)), s |-> Ref(Len(r2.c) + 1)]
      [] OTHER -> [c |-> c, s |-> v]

RECURSIVE Deref(_, _)
(* the value a slot holds: what a deep comparison of the tree sees *)
Deref(c, s) ==
    IF ~IsRef(s) THEN s
    ELSE LET x == c[s.a]
         IN  IF x.t = "object" THEN Obj([k \in DOMAIN x.m |-> Deref(c, x.m[k])])
             ELSE Arr([i \in 1..Len(x.e) |-> Deref(c, x.e[i])],
                      [k \in DOMAIN x.p |-> Deref(c, x.p[k])])

RECURSIVE Reach(_, _)
(* the cells a tree consists of *)
Reach(c, s) ==
    IF ~IsRef(s) THEN {}
    ELSE LET x == c[s.a]
             slots == IF x.t = "object" THEN {x.m[k] : k \in DOMAIN x.m}
                      ELSE {x.e[i] : i \in 1..Len(x.e)} \cup {x.p[k] : k \in DOMAIN x.p}
         IN  {s.a} \cup UNION {Reach(c, y) : y \in slots}

RECURSIVE HeapBaseMerge(_, _, _)
RECURSIVE HeapMergeNames(_, _, _, _)
RECURSIVE HeapMergeElems(_, _, _, _)
RECURSIVE HeapMergeValue(_, _, _, _)

(* merge assigning a source subtree itself instead of merging it into a    *)
(* container of the destination                                            *)
HeapMergeValue_ByRef(c, has, objValue, srcValue) ==
    IF srcValue.t = "undefined" /\ has THEN [c |-> c, s |-> objValue]
    ELSE [c |-> c, s |-> srcValue]

(* The slot merge leaves at one key, and the memory after it.  A source    *)
(* container is merged into the destination's container of the same kind   *)
(* when there is one and into a newly created one otherwise; it is never   *)
(* assigned itself.                                                        *)
HeapMergeValue(c, has, objValue, srcValue) ==
    IF IsRef(srcValue)
    THEN LET srcIsArr == c[srcValue.a].t = "array"
             reuse == IsRef(objValue) /\ (srcIsArr => c[objValue.a].t = "array")
             c1 == IF reuse THEN c
                   ELSE Append(c, IF srcIsArr THEN EmptyArr ELSE EmptyObj)
             newValue == IF reuse THEN objValue ELSE Ref(Len(c) + 1)
         IN  [c |-> HeapBaseMerge(c1, newValue.a, srcValue.a), s |-> newValue]
    ELSE IF srcValue.t = "undefined" /\ has THEN [c |-> c, s |-> objValue]
    ELSE [c |-> c, s |-> srcValue]

HeapMergeNames(c, d, s, todo) ==
    IF todo = {} THEN c
    ELSE LET k == CHOOSE x \in todo : TRUE
             r == HeapMergeValue(c, HeapHas(c[d], k), HeapGet(c[d], k), HeapGet(c[s], k))
         IN  HeapMergeNames([r.c EXCEPT ![d] = HeapPut(r.c[d], k, r.s)], d, s, todo \ {k})

HeapMergeElems(c, d, s, i) ==
    IF i > Len(c[s].e) THEN c
    ELSE LET has == i <= Len(c[d].e)
             r == HeapMergeValue(c, has, IF has THEN c[d].e[i] ELSE Undef, c[s].e[i])
         IN  HeapMergeElems([r.c EXCEPT ![d] = HeapPutAt(r.c[d], i, r.s)], d, s, i + 1)

(* the cell at d after every own key of the cell at s is merged into it *)
HeapBaseMerge(c, d, s) ==
    CASE c[s].t = "object" -> HeapMergeNames(c, d, s, DOMAIN c[s].m)
      [] c[d].t = "array" ->
            HeapMergeNames(HeapMergeElems(c, d, s, 1), d, s, DOMAIN c[s].p)
      [] OTHER -> c

RECURSIVE HeapMergeInto(_, _, _)
HeapMergeInto(c, d, sources) ==
    IF sources = << >> THEN c
    ELSE HeapMergeInto(HeapBaseMerge(c, d, Head(sources).a), d, Tail(sources))

(* merge({}, ...sources): the destination is a newly created object *)
HeapMerge(c, sources) ==
    [c |-> HeapMergeInto(Append(c, EmptyObj), Len(c) + 1, sources),
     s |-> Ref(Len(c) + 1)]

RECURSIVE HeapSetLoop(_, _, _, _)
(* the navigation loop and the final assignment of set, on the cells:      *)
(* `current[k] = current[k] || {}` creates an object only for a falsy      *)
(* slot, and an assignment on a primitive throws                           *)
HeapSetLoop(c, current, keys, value) ==
    IF ~IsRef(current) THEN [c |-> c, threw |-> TRUE]
    ELSE IF Len(keys) = 1
    THEN [c |-> [c EXCEPT ![current.a] = HeapPut(c[current.a], keys[1], value)],
          threw |-> FALSE]
    ELSE LET old == HeapGet(c[current.a], keys[1])
             c1 == IF Truthy(old) THEN c ELSE Append(c, EmptyObj)
             child == IF Truthy(old) THEN old ELSE Ref(Len(c) + 1)
         IN  HeapSetLoop([c1 EXCEPT ![current.a] = HeapPut(c1[current.a], keys[1], child)],
                         child, Tail(keys), value)

Held(kind, slot, v) == [kind |-> kind, a |-> slot.a, snap |-> v]

(* loadConfig with the trees it reads: the parsed file, the project        *)
(* configuration and the environment overlay are merged into a new object; *)
(* an exception on the way leaves a new empty object                       *)
HeapLoad(f, p, e) ==
    LET rf == Alloc(<< >>, fileConfig(f))
        rp == Alloc(rf.c, projectConfig(p))
        re == Alloc(rp.c, getEnvConfig(e))
        m == HeapMerge(re.c, <<rf.s, rp.s, re.s>>)
    IN  IF f.kind = "malformed" THEN [cells |-> <<EmptyObj>>, store |-> Ref(1), held |-> {}]
        ELSE IF p.kind = "throws"
        THEN [cells |-> Append(rf.c, EmptyObj), store |-> Ref(Len(rf.c) + 1),
              held |-> {Held("source", rf.s, fileConfig(f))}]
        ELSE [cells |-> m.c, store |-> m.s,
              held |-> {Held("source", rf.s, fileConfig(f)),
                        Held("source", rp.s, projectConfig(p)),
                        Held("source", re.s, getEnvConfig(e))}]

HeapConstructor ==
    /\ pc = "uninitialized"
    /\ pc' = "loaded"
    /\ configData' = loadConfig(file, project, env)
    /\ heap' = HeapLoad(file, project, env)
    /\ lastOp' = [NoOp EXCEPT !.op = "load"]
    /\ UNCHANGED <<file, project, env, writable, nOps, overridden, peer, retrying>>
    /\ hist' = [hist EXCEPT !.loads = @ + 1, !.start = file]

(* set(key, value): the tree is changed in place; an object passed as the  *)
(* value is stored itself                                                  *)
HeapSetPath(key, value) ==
    /\ pc = "loaded" /\ nOps < MaxOps
    /\ nOps' = nOps + 1
    /\ LET r == SetLoop(configData, Split(key), value)
           a == Alloc(heap.cells, value)
           l == HeapSetLoop(a.c, heap.store, Split(key), a.s)
       IN  /\ configData' = r.obj
           /\ heap' = [heap EXCEPT !.cells = l.c,
                                   !.held = IF IsRef(a.s)
                                            THEN @ \cup {Held("value", a.s, value)}
                                            ELSE @]
           /\ IF r.threw
              THEN /\ lastOp' = [op |-> "set", key |-> key, arg |-> value,
                                 outcome |-> "TypeError", persists |-> 0,
                                 ret |-> Undef]
                   /\ UNCHANGED <<file, overridden>>
              ELSE /\ Persist("set", key, value)
                   /\ overridden' = overridden \cup WrittenByPath(key)
    /\ UNCHANGED <<pc, project, env, writable, peer, retrying>>
    /\ hist' = Wrote(Split(key))

(* set(tree): this.configData becomes the result of merge({}, old, tree) *)
HeapSetTree(tree) ==
    /\ pc = "loaded" /\ nOps < MaxOps
    /\ nOps' = nOps + 1
    /\ configData' = merge(EmptyObj, <<configData, tree>>)
    /\ LET a == Alloc(heap.cells, tree)
           m == HeapMerge(a.c, <<heap.store, a.s>>)
       IN  heap' = [cells |-> m.c, store |-> m.s,
                    held |-> heap.held \cup
                             {Held("argument", a.s, tree),
                              Held("merged", heap.store, Deref(heap.cells, heap.store))}]
    /\ Persist("set", NoKey, tree)
    /\ overridden' = overridden \cup WrittenByTree(tree)
    /\ UNCHANGED <<pc, project, env, writable, peer, retrying>>
    /\ hist' = WroteTree(tree)

(* the values passed to the path form of set: primitives and an object *)
HeapVals == {Num(5), Undef, Obj([k \in {"c"} |-> Num(1)])}

InitHeap ==
    /\ pc = "uninitialized"
    /\ configData = EmptyObj
    /\ file \in FileStates
    /\ project \in ProjectStates
    /\ env \in {[v \in S |-> EnvText[v]] : S \in {{}, {"SONOMA_NETWORK"}}}
    /\ writable = TRUE
    /\ lastOp = NoOp
    /\ nOps = 0
    /\ overridden = {}
    /\ hist = NoHist(file)
    /\ peer = NoPeer
    /\ retrying = NoRetry
    /\ heap = NoHeap

NextHeap ==
    \/ HeapConstructor
    \/ \E key \in PathStrs, value \in HeapVals : HeapSetPath(key, value)
    \/ \E tree \in Trees : HeapSetTree(tree)

SpecHeap == InitHeap /\ [][NextHeap]_vars

(* the trees handed to merge: the sources read at load, the trees passed   *)
(* to set(tree) and the trees of the store that merge was given            *)
MergeInputs == {h \in heap.held : h.kind \in {"source", "argument", "merged"}}

InputsUntouched ==
    pc = "loaded" =>
        \A h \in MergeInputs :
            /\ Deref(heap.cells, Ref(h.a)) = h.snap
            /\ Reach(heap.cells, Ref(h.a)) \cap Reach(heap.cells, heap.store) = {}

(* the cells describe the tree the store holds *)
HeapAgrees == pc = "loaded" => Deref(heap.cells, heap.store) = configData

(* C27: merge never mutates its inputs: after merge(A, B) both A and B are *)
(* structurally unchanged and the result shares no mutable subtree with    *)
(* them, so a later path-form set on the store's tree does not change a    *)
(* tree a caller passed to set(tree) or a source tree read at load.        *)
C27_MergeLeavesInputs == InputsUntouched /\ HeapAgrees

C27_Witness ==
    /\ lastOp.op = "set" /\ lastOp.key = Join(<<"a", "b">>) /\ lastOp.outcome = "ok"
    /\ lastOp.arg = Num(5)
    /\ GetLoop(Deref(heap.cells, heap.store), <<"a", "b">>).value = Num(5)
    /\ \E h \in heap.held :
           /\ h.kind = "argument"
           /\ Defines(h.snap, <<"a">>)
           /\ Deref(heap.cells, Ref(h.a)) = h.snap
    /\ \E h \in heap.held :
           /\ h.kind = "source"
           /\ GetLoop(h.snap, <<"a", "b">>).value = Null

====
